---- MODULE Spec2Model ----
(***************************************************************************)
(* pyflagser: the .flag file codec (flagio.py: loadflag, saveflag) and the *)
(* python API in front of the flagser engine (flagser.py: flagser_static,  *)
(* flagser_persistence).                                                   *)
(*                                                                         *)
(* Numbers are integers: a float64 weight is modelled by its (integral)    *)
(* value, numpy's bool by 0/1 together with the dtype tag.                 *)
(***************************************************************************)
EXTENDS Integers, Sequences, FiniteSets, TLC

VARIABLES pc, mat, disk, origM, origF, exc, call, extractArgs, engineArgs, out

vars == <<pc, mat, disk, origM, origF, exc, call, extractArgs, engineArgs, out>>

\* Largest matrix size (number of vertices) explored.
MaxN == 2

\* Largest number of edge lines in a hand-written .flag file.
MaxLines == 2

(***************************************************************************)
(* Python values: None, a number, +inf, and the largest float (what        *)
(* nan_to_num puts for +inf when posinf is None).                          *)
(***************************************************************************)
None == [k |-> "none", v |-> 0]

Num(x) == [k |-> "num", v |-> x]

Inf == [k |-> "inf", v |-> 0]

FloatMax == [k |-> "fmax", v |-> 0]

\* Edge and vertex weights that matrices and files hold.
Weights == {0, 5}

(***************************************************************************)
(* Matrices.  data maps the stored cells <<r, c>> to their values: for an  *)
(* ndarray every cell is stored, for a scipy.sparse matrix only the cells  *)
(* that were assigned (an assigned 0 is stored).  A CSR matrix keeps its   *)
(* entries in row-major order whatever the order of assignment, so the     *)
(* stored cells and their values are all of its state.                     *)
(***************************************************************************)
Cells(n) == (0 .. n - 1) \X (0 .. n - 1)

DiagCells(n) == {<<i, i>> : i \in 0 .. n - 1}

OffDiagCells(n) == Cells(n) \ DiagCells(n)

NoMatrix == [fmt |-> "none", dtype |-> "none", n |-> 0, data |-> [x \in {} |-> 0]]

Matrix(fmt, dtype, n, data) == [fmt |-> fmt, dtype |-> dtype, n |-> n, data |-> data]

\* ndarray.diagonal() / spmatrix.diagonal(): an unstored cell reads as 0.
Diagonal(M) ==
  [i \in 1 .. M.n |-> IF <<i - 1, i - 1>> \in DOMAIN M.data
                         THEN M.data[<<i - 1, i - 1>>] ELSE 0]

\* The present off-diagonal entries of a matrix, as triples <<r, c, v>>.
PresentOffDiag(M) ==
  {<<x[1], x[2], M.data[x]>> : x \in {y \in DOMAIN M.data : y[1] # y[2]}}

\* Values a matrix of the given dtype holds.
ValuesOf(dtype) == IF dtype = "bool" THEN {0, 1} ELSE Weights

(***************************************************************************)
(* .flag files: a sequence of lines, a line the sequence of its            *)
(* space-separated tokens.  A token is the word "dim", a number written by *)
(* '%i' or a number written by '%.18e'.                                    *)
(***************************************************************************)
Word == [k |-> "dim", v |-> 0]

TokI(x) == [k |-> "i", v |-> x]

TokE(x) == [k |-> "e", v |-> x]

Header(d) == <<Word, TokI(d)>>

NoFile == [there |-> FALSE, lines |-> <<>>]

File(lines) == [there |-> TRUE, lines |-> lines]

\* Python exceptions: the type and the arguments (a message, a list).
NoArgs == [msg |-> "", list |-> <<>>]

NoExc == [type |-> "none", args |-> NoArgs]

Exc(t) == [type |-> t, args |-> NoArgs]

\* float(token): the word is no number.
IsNumeric(tok) == tok.k \in {"i", "e"}

Float(tok) == tok.v

\* int(x) of a float truncates; the numbers of the model are integral, and
\* those it keeps.
IntOf(x) == x

(***************************************************************************)
(* flagio.py                                                               *)
(***************************************************************************)

\* The orders in which sp.find returns the entries of a sparse matrix: its
\* sum_duplicates sorts by column then row (np.lexsort((row, col))) in the
\* scipy releases of the source's time and by row then column in later ones.
FindOrders == {"col", "row"}

\* Before, with the comparison the wrong way round.
BeforeDescending(a, b, order) ==
  IF order = "col"
    THEN b[2] < a[2] \/ (a[2] = b[2] /\ b[1] < a[1])
    ELSE b[1] < a[1] \/ (a[1] = b[1] /\ b[2] < a[2])

\* a comes before b in the given order.
Before(a, b, order) ==
  IF order = "col"
    THEN a[2] < b[2] \/ (a[2] = b[2] /\ a[1] < b[1])
    ELSE a[1] < b[1] \/ (a[1] = b[1] /\ a[2] < b[2])

\* The cells of S as a sequence sorted in the given order.
RECURSIVE SortCells(_, _)
SortCells(S, order) ==
  IF S = {} THEN <<>>
  ELSE LET m == CHOOSE x \in S : \A y \in S \ {x} : Before(x, y, order)
       IN  <<m>> \o SortCells(S \ {m}, order)

\* sp.find(flag_matrix): rows, columns and values of the NONZERO entries,
\* diagonal ones included, explicitly stored zeros removed.  An ndarray is
\* read in row-major order (np.nonzero).
find(M, order) ==
  LET nz == {x \in DOMAIN M.data : M.data[x] # 0}
      s  == SortCells(nz, IF M.fmt = "ndarray" THEN "row" ELSE order)
  IN  [k \in 1 .. Len(s) |-> <<s[k][1], s[k][2], M.data[s[k]]>>]

\* One line of the edge section: '%i %i' for a boolean matrix, else
\* '%i %i %.18e'.
EdgeLine(dtype, e) ==
  IF dtype = "bool" THEN <<TokI(e[1]), TokI(e[2])>>
  ELSE <<TokI(e[1]), TokI(e[2]), TokE(e[3])>>

\* saveflag(fname, flag_matrix): the lines written to fname.
saveflag(M, order) ==
  LET d == Diagonal(M)
      found == find(M, order)
  IN  File(<<Header(0), [i \in 1 .. M.n |-> TokE(d[i])], Header(1)>>
           \o [k \in 1 .. Len(found) |-> EdgeLine(M.dtype, found[k])])

\* flag_matrix[r, c] = w on a CSR matrix: the cell becomes stored.
SetItem(data, r, c, w) ==
  [x \in DOMAIN data \cup {<<r, c>>} |-> IF x = <<r, c>> THEN w ELSE data[x]]

\* scipy's index check: an index in [-n, n) is accepted, a negative one
\* counts from the end.
InRange(i, n) == -n <= i /\ i < n

Wrap(i, n) == IF i < 0 THEN i + n ELSE i

\* The loop over the edge lines: the first failing line ends it.
RECURSIVE LoadEdges(_, _, _, _)
LoadEdges(lines, k, n, data) ==
  IF k > Len(lines) THEN [exc |-> NoExc, data |-> data]
  ELSE LET edge == lines[k] IN
    IF Len(edge) < 3 THEN [exc |-> Exc("IndexError"), data |-> data]
    ELSE IF \E j \in 1 .. 3 : ~IsNumeric(edge[j])
      THEN [exc |-> Exc("ValueError"), data |-> data]
    ELSE LET r == IntOf(Float(edge[1]))
             c == IntOf(Float(edge[2]))
         IN  IF ~InRange(r, n) \/ ~InRange(c, n)
               THEN [exc |-> Exc("IndexError"), data |-> data]
               ELSE LoadEdges(lines, k + 1, n,
                              SetItem(data, Wrap(r, n), Wrap(c, n), Float(edge[3])))

\* loadflag(fname): the exception raised, or the matrix returned.
loadflag(F) ==
  LET lines == F.lines IN
  IF Len(lines) = 0 THEN [exc |-> Exc("StopIteration"), matrix |-> NoMatrix]
  ELSE IF Len(lines) < 2 \/ lines[2] = <<>>
         \/ \E j \in 1 .. Len(lines[2]) : ~IsNumeric(lines[2][j])
    THEN [exc |-> Exc("ValueError"), matrix |-> NoMatrix]
  ELSE LET vertices == [j \in 1 .. Len(lines[2]) |-> Float(lines[2][j])]
           n    == Len(vertices)
           diag == [x \in DiagCells(n) |-> vertices[x[1] + 1]]
           res  == LoadEdges(SubSeq(lines, 4, Len(lines)), 1, n, diag)
       IN  IF res.exc # NoExc THEN [exc |-> res.exc, matrix |-> NoMatrix]
           ELSE [exc |-> NoExc, matrix |-> Matrix("csr", "float64", n, res.data)]

(***************************************************************************)
(* What the caller of flagio.py starts from.                               *)
(***************************************************************************)

\* dtypes of the matrices handed to saveflag.
IODtypes == {"float64", "bool"}

\* Index tokens of a hand-written edge line: the vertices, and -n-1, -1, n.
Indices(n) == {-n - 1} \cup (-1 .. n)

\* Edge lines of a hand-written file: 'r c w', and a line with two tokens.
HandEdgeLines(n) ==
  {<<TokI(r), TokI(c), TokE(w)>> : r \in Indices(n), c \in Indices(n), w \in Weights}
    \cup {<<TokI(0), TokI(0)>>}

VertexLines(n) == {[i \in 1 .. n |-> TokE(i)], [i \in 1 .. n |-> TokE(0)]}

\* Files that end before the edge section (or before the vertex weights).
TruncatedFiles ==
  {File(<<>>), File(<<Header(0)>>), File(<<Header(0), Header(1)>>)}
    \cup UNION {{File(<<Header(0), vl>>) : vl \in VertexLines(n)} : n \in 1 .. MaxN}

NoCall == [fn |-> "none"]

Init ==
  /\ pc = "start"
  /\ mat = NoMatrix
  /\ disk = NoFile
  /\ origM = NoMatrix
  /\ origF = NoFile
  /\ exc = NoExc
  /\ call = NoCall
  /\ extractArgs = NoCall
  /\ engineArgs = NoCall
  /\ out = NoCall

flagserVars == <<call, extractArgs, engineArgs, out>>

\* The caller holds flag matrix M.
Made(M) ==
  /\ pc' = "made"
  /\ mat' = M
  /\ origM' = M
  /\ UNCHANGED <<disk, origF, exc, flagserVars>>

\* The caller builds a scipy.sparse flag matrix (the diagonal stored, as
\* setdiag leaves it; an unstored diagonal cell reads and saves as a 0).
MakeSparse ==
  /\ pc = "start"
  /\ \E n \in 1 .. MaxN, dt \in IODtypes : \E S \in SUBSET OffDiagCells(n) :
       \E d \in [DiagCells(n) \cup S -> ValuesOf(dt)] :
         Made(Matrix("csr", dt, n, d))

\* The caller builds an ndarray flag matrix.
MakeDense ==
  /\ pc = "start"
  /\ \E n \in 1 .. MaxN, dt \in IODtypes : \E d \in [Cells(n) -> ValuesOf(dt)] :
       Made(Matrix("ndarray", dt, n, d))

\* A .flag file F written by hand (or by another program) is on disk.
Written(F) ==
  /\ pc' = "written"
  /\ disk' = F
  /\ origF' = F
  /\ UNCHANGED <<mat, origM, exc, flagserVars>>

WriteTruncated ==
  /\ pc = "start"
  /\ \E F \in TruncatedFiles : Written(F)

WriteFile ==
  /\ pc = "start"
  /\ \E n \in 1 .. MaxN : \E vl \in VertexLines(n) : \E k \in 0 .. MaxLines :
       \E es \in [1 .. k -> HandEdgeLines(n)] :
         Written(File(<<Header(0), vl, Header(1)>> \o es))

\* saveflag(fname, mat)
Saveflag ==
  /\ pc \in {"made", "loaded"}
  /\ \E order \in FindOrders : disk' = saveflag(mat, order)
  /\ pc' = IF pc = "made" THEN "saved" ELSE "resaved"
  /\ UNCHANGED <<mat, origM, origF, exc, flagserVars>>

\* mat = loadflag(fname)
Loadflag ==
  /\ pc \in {"written", "saved"}
  /\ LET res == loadflag(disk) IN
       IF res.exc # NoExc
         THEN /\ exc' = res.exc
              /\ pc' = "failed"
              /\ UNCHANGED mat
         ELSE /\ mat' = res.matrix
              /\ pc' = IF pc = "written" THEN "loaded" ELSE "reloaded"
              /\ UNCHANGED exc
  /\ UNCHANGED <<disk, origM, origF, flagserVars>>

NextIO ==
  \/ MakeSparse
  \/ MakeDense
  \/ WriteTruncated
  \/ WriteFile
  \/ Saveflag
  \/ Loadflag

SpecIO == Init /\ [][NextIO]_vars

(***************************************************************************)
(* flagser.py                                                              *)
(***************************************************************************)

\* flagser_pybind.implemented_filtrations, as the docstrings list it.
implemented_filtrations ==
  <<"dimension", "zero", "max", "max3", "max_plus_one", "product", "sum",
    "pmean", "pmoment", "remove_edges", "vertex_degree">>

Range(f) == {f[i] : i \in DOMAIN f}

\* np.issubdtype(dtype, np.integer) / np.issubdtype(dtype, np.float)
IsInteger(dtype) == dtype \in {"int8", "int32"}

IsFloat(dtype) == dtype = "float64"

\* np.iinfo(dtype).max
IInfoMax(dtype) == IF dtype = "int8" THEN 127 ELSE 2147483647

\* ResolveMaxEdgeLength, taking +inf as the default of every dtype.
ResolveAlwaysInf(dtype, max_edge_length) ==
  IF max_edge_length = None THEN Inf ELSE max_edge_length

\* ResolveMaxEdgeLength, taking the smallest integer of an integer dtype.
ResolveIInfoMin(dtype, max_edge_length) ==
  IF max_edge_length = None
    THEN IF IsInteger(dtype) THEN Num(-IInfoMax(dtype) - 1)
         ELSE IF IsFloat(dtype) THEN Inf
         ELSE None
    ELSE max_edge_length

\* ResolveMaxEdgeLength, overwriting a given max_edge_length by the default.
ResolveIgnoresGiven(dtype, max_edge_length) ==
  IF IsInteger(dtype) THEN Num(IInfoMax(dtype))
  ELSE IF IsFloat(dtype) THEN Inf
  ELSE None

\* _max_edge_length: the default depends on flag_matrix.dtype.
ResolveMaxEdgeLength(dtype, max_edge_length) ==
  IF max_edge_length = None
    THEN IF IsInteger(dtype) THEN Num(IInfoMax(dtype))
         ELSE IF IsFloat(dtype) THEN Inf
         ELSE None
    ELSE max_edge_length

\* _max_dimension
NormMaxDimension(max_dimension) ==
  IF max_dimension = Inf THEN Num(-1) ELSE max_dimension

\* NormApproximation, taking every negative budget for "no approximation".
NormApproximationClamped(approximation) ==
  IF approximation = None \/ approximation.v < 0 THEN Num(-1) ELSE approximation

\* _approximation
NormApproximation(approximation) ==
  IF approximation = None THEN Num(-1) ELSE approximation

\* FiltrationRejected, without the check.
FiltrationNeverRejected(filtration) == FALSE

\* filtration not in implemented_filtrations
FiltrationRejected(filtration) == filtration \notin Range(implemented_filtrations)

\* The ValueError of an unknown filtration: its args are the message and
\* the list of implemented filtrations.
FiltrationError ==
  [type |-> "ValueError",
   args |-> [msg |-> "Filtration not recongnized. Available filtrations are ",
             list |-> implemented_filtrations]]

\* _extract_static_weights(flag_matrix): vertices and edges as presence flags.
Truth(x) == IF x # 0 THEN 1 ELSE 0

_extract_static_weights(M) ==
  [vertices |-> [i \in 1 .. M.n |-> Truth(Diagonal(M)[i])],
   edges    |-> {<<e[1], e[2], Truth(e[3])>> : e \in PresentOffDiag(M)}]

\* weight > max_edge_length, for a resolved max_edge_length.
Exceeds(w, max_edge_length) == max_edge_length.k = "num" /\ w > max_edge_length.v

\* _extract_persistence_weights(flag_matrix, max_edge_length): the raw
\* vertex weights, and the present edges not longer than max_edge_length.
_extract_persistence_weights(M, max_edge_length) ==
  [vertices |-> Diagonal(M),
   edges    |-> {e \in PresentOffDiag(M) : ~Exceeds(e[3], max_edge_length)}]

\* What the extraction does with an unresolved (None) max_edge_length is
\* not defined: it may raise, or return the edges unfiltered.
ExtractionOutcomes(M, max_edge_length) ==
  IF max_edge_length = None
    THEN {[exc |-> Exc("TypeError"), vertices |-> <<>>, edges |-> {}],
          [exc |-> NoExc, vertices |-> Diagonal(M), edges |-> PresentOffDiag(M)]}
    ELSE {[exc |-> NoExc,
           vertices |-> _extract_persistence_weights(M, max_edge_length).vertices,
           edges |-> _extract_persistence_weights(M, max_edge_length).edges]}

\* The engine is a black box: it raises, or returns a homology object.  One
\* diagram with a finite and an infinite death stands for its results.
EngineOutcomes ==
  {[exc |-> Exc("EngineError"), dgms |-> <<>>, cell_count |-> <<>>, betti |-> <<>>,
    euler |-> 0],
   [exc |-> NoExc, dgms |-> << <<[b |-> Num(0), d |-> Num(0)], [b |-> Num(0), d |-> Inf]>> >>,
    cell_count |-> <<1>>, betti |-> <<1>>, euler |-> 1]}

\* np.nan_to_num(dgm, posinf=_max_edge_length): +inf deaths are replaced
\* (by the largest float when posinf is None).
NanToNum(dgm, posinf) ==
  [i \in 1 .. Len(dgm) |->
     [b |-> dgm[i].b,
      d |-> IF dgm[i].d = Inf THEN (IF posinf = None THEN FloatMax ELSE posinf)
            ELSE dgm[i].d]]

Out(h, dgms) ==
  [fn |-> "out", dgms |-> dgms, cell_count |-> h.cell_count, betti |-> h.betti,
   euler |-> h.euler]

\* compute_homology(vertices, edges, min_dimension, _max_dimension, directed,
\*                  coeff, _approximation, filtration)
EngineCall(vertices, edges, min_dimension, max_dimension, directed, coeff, approximation, filtration) ==
  [fn |-> "compute_homology", vertices |-> vertices, edges |-> edges,
   min_dimension |-> min_dimension, max_dimension |-> max_dimension,
   directed |-> directed, coeff |-> coeff, approximation |-> approximation,
   filtration |-> filtration]

\* The caller's arguments.
Args(fn, M, mel, mind, maxd, directed, filtration, coeff, approximation) ==
  [fn |-> fn, flag_matrix |-> M, max_edge_length |-> mel, min_dimension |-> mind,
   max_dimension |-> maxd, directed |-> directed, filtration |-> filtration,
   coeff |-> coeff, approximation |-> approximation]

\* The call ends with exception e; the caller still holds its matrix, which
\* neither function assigns to.
Raised(a, e, extraction, engine) ==
  /\ pc' = "raised"
  /\ call' = a
  /\ exc' = e
  /\ extractArgs' = extraction
  /\ engineArgs' = engine
  /\ out' = NoCall
  /\ mat' = a.flag_matrix
  /\ UNCHANGED <<disk, origM, origF>>

\* The call returns o.
Returned(a, extraction, engine, o) ==
  /\ pc' = "returned"
  /\ call' = a
  /\ exc' = NoExc
  /\ extractArgs' = extraction
  /\ engineArgs' = engine
  /\ out' = o
  /\ mat' = a.flag_matrix
  /\ UNCHANGED <<disk, origM, origF>>

\* flagser_static(flag_matrix, min_dimension, max_dimension, directed,
\*                filtration, coeff, approximation)
flagser_static(a) ==
  LET _max_dimension == NormMaxDimension(a.max_dimension)
      _approximation == NormApproximation(a.approximation)
      extraction == [fn |-> "_extract_static_weights", flag_matrix |-> a.flag_matrix,
                     max_edge_length |-> None]
      w == _extract_static_weights(a.flag_matrix)
      engine == EngineCall(w.vertices, w.edges, a.min_dimension, _max_dimension,
                           a.directed, a.coeff, _approximation, a.filtration)
  IN  IF FiltrationRejected(a.filtration)
        THEN Raised(a, FiltrationError, NoCall, NoCall)
        ELSE \E h \in EngineOutcomes :
               IF h.exc # NoExc THEN Raised(a, h.exc, extraction, engine)
               ELSE Returned(a, extraction, engine, Out(h, h.dgms))

\* flagser_persistence(flag_matrix, max_edge_length, min_dimension,
\*                     max_dimension, directed, filtration, coeff, approximation)
flagser_persistence(a) ==
  LET _max_edge_length == ResolveMaxEdgeLength(a.flag_matrix.dtype, a.max_edge_length)
      _max_dimension == NormMaxDimension(a.max_dimension)
      _approximation == NormApproximation(a.approximation)
      extraction == [fn |-> "_extract_persistence_weights",
                     flag_matrix |-> a.flag_matrix,
                     max_edge_length |-> _max_edge_length]
  IN  IF FiltrationRejected(a.filtration)
        THEN Raised(a, FiltrationError, NoCall, NoCall)
        ELSE \E w \in ExtractionOutcomes(a.flag_matrix, _max_edge_length) :
               IF w.exc # NoExc THEN Raised(a, w.exc, extraction, NoCall)
               ELSE LET engine == EngineCall(w.vertices, w.edges, a.min_dimension,
                                             _max_dimension, a.directed, a.coeff,
                                             _approximation, a.filtration)
                    IN  \E h \in EngineOutcomes :
                          IF h.exc # NoExc THEN Raised(a, h.exc, extraction, engine)
                          ELSE Returned(a, extraction, engine,
                                        Out(h, [i \in 1 .. Len(h.dgms) |->
                                                  NanToNum(h.dgms[i], _max_edge_length)]))

(***************************************************************************)
(* The calls explored: every matrix with the other parameters at their     *)
(* defaults, and every combination of parameters on one-vertex matrices.   *)
(***************************************************************************)
FlagserDtypes == {"int8", "float64", "bool"}

MaxEdgeLengths == {None, Num(-1), Num(0), Num(5)}

MaxDimensions == {Inf, Num(-1), Num(0), Num(2)}

Approximations == {None, Num(-5), Num(-1), Num(100)}

Filtrations == Range(implemented_filtrations) \cup {"bogus"}

PersistenceOnMatrices ==
  /\ pc = "start"
  /\ \E n \in 1 .. MaxN, dt \in FlagserDtypes, fmt \in {"csr", "ndarray"} :
       \E S \in (IF fmt = "csr" THEN SUBSET OffDiagCells(n) ELSE {OffDiagCells(n)}) :
         \E d \in [DiagCells(n) \cup S -> ValuesOf(dt)] :
           \E mel \in MaxEdgeLengths :
             flagser_persistence(Args("flagser_persistence", Matrix(fmt, dt, n, d),
                                      mel, 0, Inf, TRUE, "max", 2, None))

PersistenceWithParameters ==
  /\ pc = "start"
  /\ \E dt \in FlagserDtypes, fmt \in {"csr", "ndarray"} :
       \E d \in [DiagCells(1) -> ValuesOf(dt)] :
         \E mel \in MaxEdgeLengths, mind \in {0, 1}, maxd \in MaxDimensions,
            directed \in BOOLEAN, f \in Filtrations, coeff \in {2, 3},
            approx \in Approximations :
           flagser_persistence(Args("flagser_persistence", Matrix(fmt, dt, 1, d),
                                    mel, mind, maxd, directed, f, coeff, approx))

StaticOnMatrices ==
  /\ pc = "start"
  /\ \E n \in 1 .. MaxN, dt \in FlagserDtypes, fmt \in {"csr", "ndarray"} :
       \E S \in (IF fmt = "csr" THEN SUBSET OffDiagCells(n) ELSE {OffDiagCells(n)}) :
         \E d \in [DiagCells(n) \cup S -> ValuesOf(dt)] :
           flagser_static(Args("flagser_static", Matrix(fmt, dt, n, d),
                               None, 0, Inf, TRUE, "max", 2, None))

StaticWithParameters ==
  /\ pc = "start"
  /\ \E dt \in FlagserDtypes, fmt \in {"csr", "ndarray"} :
       \E d \in [DiagCells(1) -> ValuesOf(dt)] :
         \E mind \in {0, 1}, maxd \in MaxDimensions,
            directed \in BOOLEAN, f \in Filtrations, coeff \in {2, 3},
            approx \in Approximations :
           flagser_static(Args("flagser_static", Matrix(fmt, dt, 1, d),
                               None, mind, maxd, directed, f, coeff, approx))

NextFlagser ==
  \/ PersistenceOnMatrices
  \/ PersistenceWithParameters
  \/ StaticOnMatrices
  \/ StaticWithParameters

SpecFlagser == Init /\ [][NextFlagser]_vars

Next == NextIO \/ NextFlagser

Spec == Init /\ [][Next]_vars

(***************************************************************************)
(* Properties of flagio.py (checked under SpecIO).                         *)
(***************************************************************************)

\* The lines after the 'dim 1' header.
EdgeSection(F) == SubSeq(F.lines, 4, Len(F.lines))

\* The numbers of an edge line 'r c w'.
Triple(line) == <<line[1].v, line[2].v, line[3].v>>

TripleSeq(es) == [k \in 1 .. Len(es) |-> Triple(es[k])]

IsOffDiagLine(line) == line[1].v # line[2].v

\* The file's edge lines are 'r c w' lines that name pairwise distinct
\* off-diagonal cells of the n x n matrix, n the length of its second line.
DistinctEdgeLines(F) ==
  /\ Len(F.lines) >= 3
  /\ LET n == Len(F.lines[2])
         es == EdgeSection(F)
     IN  /\ \A k \in 1 .. Len(es) : Len(es[k]) = 3 /\ es[k][1].v # es[k][2].v
         /\ \A j, k \in 1 .. Len(es) :
              j < k => <<es[j][1].v, es[j][2].v>> # <<es[k][1].v, es[k][2].v>>

\* ... with the indices in [0, n) and the weights nonzero.
CleanEdgeLines(F) ==
  /\ DistinctEdgeLines(F)
  /\ LET n == Len(F.lines[2])
         es == EdgeSection(F)
     IN  \A k \in 1 .. Len(es) :
           /\ es[k][1].v \in 0 .. n - 1
           /\ es[k][2].v \in 0 .. n - 1
           /\ es[k][3].v # 0

\* C1: round trip.  For every sparse flag matrix M (explicitly stored
\* off-diagonal zeros and boolean matrices included), saveflag(M) followed
\* by loadflag of the written file returns a matrix with M's diagonal and
\* exactly M's present off-diagonal entries.
C1_RoundTrip ==
  origM.fmt = "csr" =>
    /\ pc # "failed"
    /\ pc = "reloaded" =>
         /\ Diagonal(mat) = Diagonal(origM)
         /\ PresentOffDiag(mat) = PresentOffDiag(origM)

\* C2: loadflag builds an n x n sparse matrix, n the token count of the
\* vertex-weight line: the diagonal is the vertex-weight line, every edge
\* line 'r c w' makes entry (r, c) present with value w (a weight 0
\* included), and every off-diagonal cell that no edge line names is absent.
\* (Stated for edge lines that name distinct off-diagonal cells.)
C2_LoadBuildsMatrix ==
  (pc = "loaded" /\ DistinctEdgeLines(origF)) =>
    LET vl == origF.lines[2]
        es == EdgeSection(origF)
        named == {<<es[k][1].v, es[k][2].v>> : k \in 1 .. Len(es)}
    IN  /\ mat.fmt = "csr"
        /\ mat.n = Len(vl)
        /\ \A i \in 1 .. Len(vl) : Diagonal(mat)[i] = vl[i].v
        /\ \A k \in 1 .. Len(es) :
             /\ <<es[k][1].v, es[k][2].v>> \in DOMAIN mat.data
             /\ mat.data[<<es[k][1].v, es[k][2].v>>] = es[k][3].v
        /\ \A x \in DOMAIN mat.data : x[1] # x[2] => x \in named

\* C3: loadflag fails, and returns no matrix, when the vertex-weight line is
\* missing, when an edge line has fewer than three tokens, or when an edge
\* line has a row or column index outside [0, n), a negative one included.
C3_MalformedRejected ==
  /\ (pc = "failed" /\ origF.there) => mat = NoMatrix
  /\ pc = "loaded" =>
       LET lines == origF.lines
           es == EdgeSection(origF)
       IN  /\ Len(lines) >= 2
           /\ \A j \in 1 .. Len(lines[2]) : IsNumeric(lines[2][j])
           /\ \A k \in 1 .. Len(es) :
                /\ Len(es[k]) >= 3
                /\ es[k][1].v \in 0 .. Len(lines[2]) - 1
                /\ es[k][2].v \in 0 .. Len(lines[2]) - 1

\* C9: the edge section saveflag writes corresponds one to one to the
\* present off-diagonal entries of the matrix: one line per present entry
\* (an explicitly stored zero included), no line for a diagonal entry or an
\* absent cell; two tokens per line for a boolean matrix, else three.
C9_EdgeSectionMatchesEntries ==
  pc = "saved" =>
    LET es == EdgeSection(disk)
        present == PresentOffDiag(mat)
    IN  /\ Len(es) = Cardinality(present)
        /\ \A e \in present : \E k \in 1 .. Len(es) : es[k] = EdgeLine(mat.dtype, e)
        /\ \A k \in 1 .. Len(es) :
             /\ IsOffDiagLine(es[k])
             /\ Len(es[k]) = IF mat.dtype = "bool" THEN 2 ELSE 3

\* The off-diagonal lines of an edge section, in the order written.
OffDiagTriples(F) == TripleSeq(SelectSeq(EdgeSection(F), IsOffDiagLine))

\* C10 as claimed: a matrix loaded from the edge lines e1..ek (distinct
\* cells) is saved with e1..ek in the order they were loaded in.  (Only the
\* relative order of the off-diagonal lines is compared.)
C10_InsertionOrder ==
  (pc = "resaved" /\ CleanEdgeLines(origF)) =>
    OffDiagTriples(disk) = TripleSeq(EdgeSection(origF))

\* C10 as amended: saveflag writes the nonzero stored entries of the matrix
\* sorted by cell (by column then row, or by row then column), whatever the
\* order the entries were assigned in.
C10_SortedOrder ==
  pc \in {"saved", "resaved"} =>
    LET es == EdgeSection(disk)
        cell(k) == <<es[k][1].v, es[k][2].v>>
        n == mat.n
        colKey(k) == cell(k)[2] * n + cell(k)[1]
        rowKey(k) == cell(k)[1] * n + cell(k)[2]
    IN  /\ {cell(k) : k \in 1 .. Len(es)} = {x \in DOMAIN mat.data : mat.data[x] # 0}
        /\ \/ \A j, k \in 1 .. Len(es) : j < k => colKey(j) < colKey(k)
           \/ \A j, k \in 1 .. Len(es) : j < k => rowKey(j) < rowKey(k)

\* Two lines loaded in one order come out in the other.
C10_Witness ==
  /\ pc = "resaved"
  /\ CleanEdgeLines(origF)
  /\ Len(EdgeSection(origF)) >= 2
  /\ OffDiagTriples(disk) # TripleSeq(EdgeSection(origF))

(***************************************************************************)
(* Properties of flagser.py (checked under SpecFlagser).                   *)
(***************************************************************************)

IsPersistence == call.fn = "flagser_persistence"

Called == call.fn \in {"flagser_static", "flagser_persistence"}

ValidName == call.filtration \in Range(implemented_filtrations)

\* The error's arguments hold the value f.
Names(e, f) == f = e.args.msg \/ f \in Range(e.args.list)

C5_ErrorNamesValue ==
  Called =>
    /\ ~ValidName =>
         /\ pc = "raised"
         /\ exc.type = "ValueError"
         /\ Names(exc, call.filtration)
         /\ exc.args.list = implemented_filtrations
         /\ extractArgs = NoCall
         /\ engineArgs = NoCall
    /\ ValidName =>
         /\ exc.type # "ValueError"
         /\ extractArgs # NoCall
         /\ engineArgs.fn = "compute_homology" \/ exc.type = "TypeError"

\* C5 as amended: the error is a ValueError whose arguments are a fixed
\* message and the list of valid names (the invalid value is not in it); it
\* is raised before the extraction and the engine are called.  Each
\* registered name passes validation and goes on to the extraction and the
\* engine call.
C5_Validation ==
  Called =>
    /\ ~ValidName =>
         /\ pc = "raised"
         /\ exc.type = "ValueError"
         /\ ~Names(exc, call.filtration)
         /\ exc.args.list = implemented_filtrations
         /\ extractArgs = NoCall
         /\ engineArgs = NoCall
    /\ ValidName =>
         /\ exc.type # "ValueError"
         /\ extractArgs # NoCall
         /\ engineArgs.fn = "compute_homology" \/ exc.type = "TypeError"

C5_Witness ==
  /\ Called
  /\ call.filtration = "bogus"
  /\ pc = "raised"
  /\ exc.type = "ValueError"
  /\ engineArgs = NoCall

C7_ZeroSemantics ==
  (IsPersistence /\ engineArgs # NoCall) =>
    LET M == call.flag_matrix
        edges == engineArgs.edges
    IN  /\ \A e \in PresentOffDiag(M) :
             (M.fmt = "ndarray" \/ e[3] = 0) => e \in edges
        /\ \A e \in edges : <<e[1], e[2]>> \in DOMAIN M.data /\ e[1] # e[2]

\* C7 as amended: ... for the cells whose weight does not exceed
\* max_edge_length (all of them when max_edge_length is left at None).
C7_ZeroSemanticsFiltered ==
  (IsPersistence /\ engineArgs # NoCall) =>
    LET M == call.flag_matrix
        edges == engineArgs.edges
        kept(w) == call.max_edge_length.k = "num" => w <= call.max_edge_length.v
    IN  /\ \A e \in PresentOffDiag(M) :
             ((M.fmt = "ndarray" \/ e[3] = 0) /\ kept(e[3])) => e \in edges
        /\ \A e \in edges : <<e[1], e[2]>> \in DOMAIN M.data /\ e[1] # e[2]

\* A sparse matrix with a stored zero at (0, 1) and nothing at (1, 0).
C7_Witness ==
  /\ IsPersistence
  /\ engineArgs # NoCall
  /\ call.flag_matrix.fmt = "csr"
  /\ call.flag_matrix.n = 2
  /\ <<0, 1, 0>> \in engineArgs.edges
  /\ <<1, 0>> \notin DOMAIN call.flag_matrix.data
  /\ \A e \in engineArgs.edges : <<e[1], e[2]>> # <<1, 0>>

\* C8: with a given max_edge_length, the extracted edge list holds no edge
\* longer than max_edge_length, holds every present edge of weight at most
\* max_edge_length (equal included), and the matrix is left as it was.
C8_MaxEdgeFilter ==
  (IsPersistence /\ call.max_edge_length.k = "num" /\ engineArgs # NoCall) =>
    LET M == call.flag_matrix
        edges == engineArgs.edges
    IN  /\ \A e \in edges : e[3] <= call.max_edge_length.v
        /\ \A e \in PresentOffDiag(M) : e[3] <= call.max_edge_length.v => e \in edges
        /\ edges \subseteq PresentOffDiag(M)
        /\ mat = M

\* An edge of weight exactly max_edge_length is kept, a longer one dropped.
C8_Witness ==
  /\ IsPersistence
  /\ engineArgs # NoCall
  /\ call.max_edge_length = Num(0)
  /\ \E e \in engineArgs.edges : e[3] = 0
  /\ \E e \in PresentOffDiag(call.flag_matrix) : e[3] = 5 /\ e \notin engineArgs.edges

====
